---- MODULE Spec2Model ----
(***************************************************************************)
(* Model of src/rh_api_trading.py: the CryptoAPITrading client (gateway     *)
(* calls, check_buying_power, check_token) and the polling loop of main().  *)
(*                                                                          *)
(* Python values are records [kind, v]: the language is dynamically typed   *)
(* and the code stores whatever a gateway call returns, so a field or a     *)
(* local can hold None, a number or a parsed JSON object.  Prices and       *)
(* amounts are whole numbers of one price unit; percentages are compared    *)
(* exactly (x < y * 0.97 as 100 * x < 97 * y).                              *)
(***************************************************************************)
EXTENDS Integers, Sequences, FiniteSets, TLC

VARIABLES
    btc_last_price_bought,     \* self.btc_last_price_bought
    btc_last_price_sold,       \* self.btc_last_price_sold
    btc_last_quantity_bought,  \* self.btc_last_quantity_bought
    btc_last_quantity_sold,    \* self.btc_last_quantity_sold
    btc_last_price_checked,    \* self.btc_last_price_checked
    pc,                        \* position of main()'s loop
    buying_power,              \* main()'s local buying_power
    raised,                    \* the exception that left the last operation, or "none"
    now,                       \* the wall clock, in seconds
    ticks,                     \* iterations of the loop / executions of check_token started
    calls,                     \* the HTTP requests issued during the current tick, in order
    tick,                      \* what the current tick observed (its inputs and the state before it)
    json_error_is_request_exception,  \* the installed requests raises a RequestException for a bad JSON body
    stop_requested             \* someone outside the program has asked the loop to stop

vars == <<btc_last_price_bought, btc_last_price_sold, btc_last_quantity_bought,
          btc_last_quantity_sold, btc_last_price_checked, pc, buying_power,
          raised, now, ticks, calls, tick, json_error_is_request_exception,
          stop_requested>>

----------------------------------------------------------------------------
(* Bounds of the model *)

MaxTicks == 3
MaxUuid == 2
\* the most arguments given to a call with *args
MaxArgs == 2
\* the last second the clock of the gateway calls reaches
MaxClock == 11

----------------------------------------------------------------------------
(* Python values *)

PyNone == [kind |-> "None", v |-> 0]
Num(n) == [kind |-> "num", v |-> n]
\* a JSON object of the endpoint's shape; v is the number it carries
\* (total_quantity, the bid price, buying_power)
Dict(n) == [kind |-> "dict", v |-> n]
\* the JSON object of an error reply (a non-2xx status): none of the expected keys
ErrDict == [kind |-> "errdict", v |-> 0]

IsNum(x) == x.kind = "num"
IsObject(x) == x.kind \in {"dict", "errdict"}

\* x == n for a Python value x and a number n: an object or None never equals a number
PyEq(x, n) == IsNum(x) /\ x.v = n

Prices == {96, 97, 101, 103}
Quantities == {0, 2}
Powers == {5, 9, 10, 50}

\* response.json() returns whatever JSON value the body holds.  The API answers
\* with objects; check_token uses the replies as numbers (token_holdings == 0,
\* 10 / btc_price), so both shapes are replies the code is checked against.
JsonBodies(S) == {Num(n) : n \in S} \cup {Dict(n) : n \in S}

\* what the HTTP layer does with one request
HttpOutcomes(S) ==
    {[net |-> "ok", json |-> j] : j \in JsonBodies(S)}
    \cup {[net |-> "non2xx", json |-> ErrDict],
          [net |-> "badjson", json |-> PyNone],
          [net |-> "RequestException", json |-> PyNone]}

Failed(out) == out.net # "ok"

----------------------------------------------------------------------------
(* Strings are sequences of tokens; "" is <<>>; + and f-strings are \o *)

ApiKey == <<"API_KEY">>
BaseUrl == <<"https://trading.robinhood.com">>

DigitChars == <<"0", "1", "2", "3", "4", "5", "6", "7", "8", "9">>

\* str(n) for a non-negative integer: its decimal digits, most significant first
RECURSIVE str(_)
str(n) == IF n < 10 THEN <<DigitChars[n + 1]>>
          ELSE str(n \div 10) \o <<DigitChars[(n % 10) + 1]>>

\* "&".join(params)
RECURSIVE JoinAmp(_)
JoinAmp(params) ==
    IF Len(params) = 0 THEN <<>>
    ELSE IF Len(params) = 1 THEN params[1]
    ELSE params[1] \o <<"&">> \o JoinAmp(Tail(params))

\* the query string with the "?" written for an empty argument list too
QueryParamsAlwaysPrefixed(key, args) ==
    <<"?">> \o JoinAmp([i \in 1..Len(args) |-> <<key, "=", args[i]>>])

get_query_params(key, args) ==
    IF Len(args) = 0 THEN <<>>
    ELSE <<"?">> \o JoinAmp([i \in 1..Len(args) |-> <<key, "=", args[i]>>])

\* the Ed25519 signature of a message, kept symbolic: it is determined by the message
Sign(message) == <<"sig", message>>

\* the header with the method signed before the path
HeaderWithMethodBeforePath(method, path, body, timestamp) ==
    LET message_to_sign == ApiKey \o str(timestamp) \o <<method>> \o path \o body
    IN [x_api_key |-> ApiKey,
        x_signature |-> Sign(message_to_sign),
        x_timestamp |-> str(timestamp)]

get_authorization_header(method, path, body, timestamp) ==
    LET message_to_sign == ApiKey \o str(timestamp) \o path \o <<method>> \o body
    IN [x_api_key |-> ApiKey,
        x_signature |-> Sign(message_to_sign),
        x_timestamp |-> str(timestamp)]

\* json.loads(body) fails on the empty string
JsonLoadsFails(body) == body = <<>>

\* the result of a call: the value returned, the exception raised ("none" when it
\* returns) and the HTTP requests issued, each with the timestamp it was signed
\* with, what the HTTP layer did with it (net) and the JSON value of the reply
Returned(value, sent) == [ret |-> value, raised |-> "none", sent |-> sent]
Raised(exc, sent) == [ret |-> PyNone, raised |-> exc, sent |-> sent]

\* a timestamp kept from the start of the process instead of read at the call
StaleTimestamp(clock) == 0

\* lines 32-34: the clock, in whole seconds
get_current_timestamp(clock) == clock

make_api_request(method, path, body, out, clock) ==
    LET timestamp == get_current_timestamp(clock)
        headers == get_authorization_header(method, path, body, timestamp)
        url == BaseUrl \o path
        request == [method |-> method, url |-> url, headers |-> headers,
                    body |-> body, timestamp |-> timestamp,
                    net |-> out.net, reply |-> out.json]
    IN IF method = "POST" /\ JsonLoadsFails(body)
         THEN Raised("JSONDecodeError", <<>>)
       ELSE IF method \notin {"GET", "POST"}
         THEN Raised("AttributeError", <<>>)
       ELSE IF out.net = "RequestException"
         THEN Returned(PyNone, <<request>>)
       ELSE IF out.net = "badjson"
         THEN IF json_error_is_request_exception
                THEN Returned(PyNone, <<request>>)
                ELSE Raised("JSONDecodeError", <<request>>)
       ELSE Returned(out.json, <<request>>)

get_account(out, clock) ==
    make_api_request("GET", <<"/api/v1/crypto/trading/accounts/">>, <<>>, out, clock)

get_holdings(asset_codes, out, clock) ==
    LET query_params == get_query_params("asset_code", asset_codes)
        path == <<"/api/v1/crypto/trading/holdings/">> \o query_params
    IN make_api_request("GET", path, <<>>, out, clock)

get_best_bid_ask(symbols, out, clock) ==
    LET query_params == get_query_params("symbol", symbols)
        path == <<"/api/v1/crypto/marketdata/best_bid_ask/">> \o query_params
    IN make_api_request("GET", path, <<>>, out, clock)

\* json.dumps(body): the text of the object, one token
place_order(client_order_id, side, order_type, symbol, order_config, out, clock) ==
    LET body == [client_order_id |-> client_order_id,
                 side |-> side,
                 type |-> order_type,
                 symbol |-> symbol,
                 config_key |-> <<order_type, "_order_config">>,
                 order_config |-> order_config]
        path == <<"/api/v1/crypto/trading/orders/">>
    IN make_api_request("POST", path, <<body>>, out, clock)

cancel_order(order_id, out, clock) ==
    LET path == <<"/api/v1/crypto/trading/orders/", order_id, "/cancel/">>
    IN make_api_request("POST", path, <<>>, out, clock)

get_order(order_id, out, clock) ==
    LET path == <<"/api/v1/crypto/trading/orders/", order_id, "/">>
    IN make_api_request("GET", path, <<>>, out, clock)

----------------------------------------------------------------------------
(* Name resolution: a method the class does not define raises AttributeError  *)
(* when it is looked up, a name the module does not define raises NameError.  *)

ClassMethodNames ==
    {"_get_current_timestamp", "get_query_params", "make_api_request",
     "get_authorization_header", "get_account", "get_trading_pairs",
     "get_holdings", "get_best_bid_ask", "get_estimated_price", "place_order",
     "cancel_order", "get_order", "get_orders", "check_buying_power",
     "check_token"}

\* the class as it would be with the method check_token calls
MethodsWithDollarAmountOrder == ClassMethodNames \cup {"place_order_by_dollar_amount"}

Methods == ClassMethodNames

ModuleNames ==
    {"base64", "datetime", "json", "Any", "Dict", "Optional", "uuid", "requests",
     "cryptography", "ed25519", "time", "os", "API_KEY", "BASE64_PRIVATE_KEY",
     "CryptoAPITrading", "get_account", "main"}

\* the module as it would be with the name line 206 uses
GlobalNamesWithAssetQuantity == ModuleNames \cup {"asset_quantity"}

GlobalNames == ModuleNames

----------------------------------------------------------------------------
(* The client object *)

Self == [btc_last_price_bought |-> btc_last_price_bought,
         btc_last_price_sold |-> btc_last_price_sold,
         btc_last_quantity_bought |-> btc_last_quantity_bought,
         btc_last_quantity_sold |-> btc_last_quantity_sold,
         btc_last_price_checked |-> btc_last_price_checked]

\* __init__
NewSelf == [btc_last_price_bought |-> Num(0),
            btc_last_price_sold |-> Num(0),
            btc_last_quantity_bought |-> Num(0),
            btc_last_quantity_sold |-> Num(0),
            btc_last_price_checked |-> Num(0)]

\* str(uuid.uuid4()): a random identifier
UUIDs == 1..MaxUuid

FillPrices == {97, 101}

\* what the exchange answers to an order: v > 0 an order filled at the price v,
\* v = 0 an order left open; a non-2xx reply is a rejection
OrderOutcomes ==
    {[net |-> "ok", json |-> Dict(p)] : p \in FillPrices \cup {0}}
    \cup {[net |-> "non2xx", json |-> ErrDict],
          [net |-> "RequestException", json |-> PyNone]}

\* 10 / btc_price, kept as the pair of its operands
Quotient(n, price) == [kind |-> "quotient", v |-> price.v, n |-> n]

\* self.place_order_by_dollar_amount(...): the class defines no such method, so the
\* attribute lookup raises before any argument is evaluated
place_order_by_dollar_amount(client_order_id, side, order_type, symbol, amount, out, clock) ==
    IF "place_order_by_dollar_amount" \in Methods
      THEN place_order(client_order_id, side, order_type, symbol,
                       [key |-> "quote_amount", value |-> amount], out, clock)
      ELSE Raised("AttributeError", <<>>)

\* the state of check_token after some of its statements: the object, the requests
\* issued so far and the exception that ended it ("none": it goes on)
\* a step that also records the price it checked as the last price sold
StepStoringLastPriceSold(self, sent, exc) ==
    [self |-> [self EXCEPT !.btc_last_price_sold = self.btc_last_price_checked],
     sent |-> sent, raised |-> exc]

Step(self, sent, exc) == [self |-> self, sent |-> sent, raised |-> exc]

\* lines 176-192: last price sold is not 0
DipBuy(self, btc_price, clock) ==
    IF ~IsNum(self.btc_last_price_sold) \/ ~IsNum(btc_price)
      THEN {Step(self, <<>>, "TypeError")}
    ELSE IF 100 * btc_price.v < 97 * self.btc_last_price_sold.v
      THEN IF btc_price.v = 0
             THEN {Step(self, <<>>, "ZeroDivisionError")}
             ELSE {LET order == place_order_by_dollar_amount(
                                    u, "buy", "market", "BTC-USD",
                                    Quotient(10, btc_price), out, clock)
                   IN IF order.raised # "none"
                        THEN Step(self, order.sent, order.raised)
                        ELSE Step([self EXCEPT !.btc_last_price_bought = Num(0)],
                                  order.sent, "none")
                   : u \in UUIDs, out \in OrderOutcomes}
    ELSE {Step(self, <<>>, "none")}

\* lines 196-212: the first buy
FirstBuy(self, btc_price, clock) ==
    IF ~IsNum(btc_price)
      THEN {Step(self, <<>>, "TypeError")}
    ELSE IF btc_price.v = 0
      THEN {Step(self, <<>>, "ZeroDivisionError")}
    ELSE IF "asset_quantity" \notin GlobalNames
      THEN {Step(self, <<>>, "NameError")}
    ELSE {LET order == place_order(u, "buy", "market", "BTC-USD",
                                   [key |-> "asset_quantity",
                                    value |-> Quotient(10, btc_price)], out, clock)
          IN IF order.raised # "none"
               THEN Step(self, order.sent, order.raised)
               ELSE Step([self EXCEPT !.btc_last_price_bought = btc_price,
                                      !.btc_last_quantity_bought = Num(10)],
                         order.sent, "none")
          : u \in UUIDs, out \in OrderOutcomes}

\* lines 229-241: the buy that closes the zero-holdings block
SecondBuy(st, btc_price, clock) ==
    IF st.raised # "none" THEN {st}
    ELSE {LET order == place_order_by_dollar_amount(
                           u, "buy", "market", "BTC-USD", Num(10), out, clock)
          IN IF order.raised # "none"
               THEN Step(st.self, st.sent \o order.sent, order.raised)
               ELSE Step([st.self EXCEPT !.btc_last_price_bought = btc_price,
                                         !.btc_last_quantity_bought = Num(10)],
                         st.sent \o order.sent, "none")
          : u \in UUIDs, out \in OrderOutcomes}

NoReply == [net |-> "nocall", json |-> PyNone]

\* the outcome of one execution of check_token: the object after it, the requests
\* it issued, the exception that left it and the replies it got
Outcome(self, sent, exc, holdings, quote) ==
    [self |-> self, calls |-> sent, raised |-> exc,
     holdings |-> holdings, quote |-> quote]

\* the closing quote fetch with a buy placed before it whatever the holdings are
FinalQuoteAfterBuy(self, sent, holdings, quote, clock) ==
    {LET order == place_order(u, "buy", "market", "BTC-USD",
                              [key |-> "asset_quantity", value |-> Num(10)],
                              out.o, clock)
         q == get_best_bid_ask(<<"BTC-USD">>, out.q, clock)
     IN Outcome(self, sent \o order.sent \o q.sent, q.raised, holdings,
                IF quote = NoReply THEN out.q ELSE quote)
     : u \in UUIDs, out \in [o : OrderOutcomes, q : HttpOutcomes(Prices)]}

\* lines 242-244
FinalQuote(self, sent, holdings, quote, clock) ==
    {LET q == get_best_bid_ask(<<"BTC-USD">>, out, clock)
     IN Outcome(self, sent \o q.sent, q.raised, holdings,
                IF quote = NoReply THEN out ELSE quote)
     : out \in HttpOutcomes(Prices)}

\* line 170: self.btc_last_price_checked = btc_price
StoreLastPriceChecked(self, btc_price) ==
    [self EXCEPT !.btc_last_price_checked = btc_price]

\* lines 167-241: token_holdings == 0
ZeroHoldings(self, sent, holdings, clock) ==
    UNION {LET q == get_best_bid_ask(<<"BTC-USD">>, out, clock)
           IN IF q.raised # "none"
                THEN {Outcome(self, sent \o q.sent, q.raised, holdings, out)}
                ELSE LET btc_price == q.ret
                         s1 == StoreLastPriceChecked(self, btc_price)
                         first == IF ~PyEq(s1.btc_last_price_sold, 0)
                                    THEN DipBuy(s1, btc_price, clock)
                                    ELSE FirstBuy(s1, btc_price, clock)
                         both == UNION {SecondBuy(st, btc_price, clock) : st \in first}
                     IN UNION {IF st.raised # "none"
                                 THEN {Outcome(st.self, sent \o q.sent \o st.sent,
                                               st.raised, holdings, out)}
                                 ELSE FinalQuote(st.self, sent \o q.sent \o st.sent,
                                                 holdings, out, clock)
                               : st \in both}
           : out \in HttpOutcomes(Prices)}

\* the executions of check_token(ticker) on the object self
check_token(self, ticker, clock) ==
    UNION {LET h == get_holdings(<<ticker>>, out, clock)
           IN IF h.raised # "none"
                THEN {Outcome(self, h.sent, h.raised, out, NoReply)}
                ELSE LET token_holdings == h.ret
                     IN IF PyEq(token_holdings, 0)
                          THEN ZeroHoldings(self, h.sent, out, clock)
                          ELSE FinalQuote(self, h.sent, out, NoReply, clock)
           : out \in HttpOutcomes(Quantities)}

\* the executions of check_buying_power()
check_buying_power(clock) ==
    {LET response == get_account(out, clock)
         res == IF response.raised # "none" THEN response
                ELSE IF ~IsObject(response.ret)
                  THEN Raised("AttributeError", response.sent)
                ELSE IF response.ret.kind = "errdict"
                  THEN Raised("TypeError", response.sent)
                ELSE Returned(Num(response.ret.v), response.sent)
     IN [res |-> res, account |-> out]
     : out \in HttpOutcomes(Powers)}

----------------------------------------------------------------------------
(* State and operations *)

\* what a tick has observed so far: the operation that is running, the replies to
\* the account, holdings and quote requests, whether the exchange holds an open
\* order of this client, the object before the tick, and whether the loop has
\* reached its call of the decision engine (line 311); for a gateway call made
\* by a caller, its arguments
NoTick == [op |-> "none", account |-> NoReply, holdings |-> NoReply,
           quote |-> NoReply, open_order |-> FALSE, pre |-> NewSelf,
           engine_invoked |-> FALSE, args |-> <<>>]

SetSelf(self) ==
    /\ btc_last_price_bought' = self.btc_last_price_bought
    /\ btc_last_price_sold' = self.btc_last_price_sold
    /\ btc_last_quantity_bought' = self.btc_last_quantity_bought
    /\ btc_last_quantity_sold' = self.btc_last_quantity_sold
    /\ btc_last_price_checked' = self.btc_last_price_checked

selfVars == <<btc_last_price_bought, btc_last_price_sold, btc_last_quantity_bought,
              btc_last_quantity_sold, btc_last_price_checked>>

\* main(), line 254 and the else branch of the menu: a new client enters the loop
Init ==
    /\ btc_last_price_bought = Num(0)
    /\ btc_last_price_sold = Num(0)
    /\ btc_last_quantity_bought = Num(0)
    /\ btc_last_quantity_sold = Num(0)
    /\ btc_last_price_checked = Num(0)
    /\ pc = "loop"
    /\ buying_power = PyNone
    /\ raised = "none"
    /\ now = 0
    /\ ticks = 0
    /\ calls = <<>>
    /\ tick = NoTick
    /\ json_error_is_request_exception \in BOOLEAN
    /\ stop_requested = FALSE

\* the test of line 309 with the wrong limit
EnoughBuyingPowerAboveZero(bp) == bp.v > 0

\* line 309
EnoughBuyingPower(bp) == bp.v >= 10

\* a scheduler that starts a tick on a timer, whether or not the last one is over
MayStartTickOnTimer == pc \in {"loop", "test", "sleep"}

\* line 304: the loop head is reached at entry and when time.sleep returns
MayStartTick == pc = "loop"

\* line 307: buying_power = api_trading_client.check_buying_power()
FetchBuyingPower ==
    /\ MayStartTick
    /\ ticks < MaxTicks
    /\ \E r \in check_buying_power(now) :
         /\ ticks' = ticks + 1
         /\ calls' = r.res.sent
         /\ tick' = [NoTick EXCEPT !.op = "main", !.account = r.account,
                                   !.pre = Self]
         /\ raised' = r.res.raised
         /\ IF r.res.raised # "none"
              THEN pc' = "raised" /\ UNCHANGED buying_power
              ELSE pc' = "test" /\ buying_power' = r.res.ret
    /\ UNCHANGED <<selfVars, now, json_error_is_request_exception, stop_requested>>

\* lines 309-311: the class has no check_bitcoin, so the call raises AttributeError
TestBuyingPower ==
    /\ pc = "test"
    /\ IF EnoughBuyingPower(buying_power)
         THEN /\ tick' = [tick EXCEPT !.engine_invoked = TRUE]
              /\ "check_bitcoin" \notin Methods
              /\ raised' = "AttributeError"
              /\ pc' = "raised"
         ELSE /\ pc' = "sleep"
              /\ UNCHANGED <<tick, raised>>
    /\ UNCHANGED <<selfVars, buying_power, now, ticks, calls,
                   json_error_is_request_exception, stop_requested>>

SleepSeconds == 1200

\* line 314: time.sleep(1200)
Sleep ==
    /\ pc = "sleep"
    /\ now' = now + SleepSeconds
    /\ pc' = "loop"
    /\ UNCHANGED <<selfVars, buying_power, raised, ticks, calls, tick,
                   json_error_is_request_exception, stop_requested>>

\* the loop reads no stop signal: a request to stop is only made, never seen
RequestStop ==
    /\ ~stop_requested
    /\ pc # "raised"
    /\ stop_requested' = TRUE
    /\ UNCHANGED <<selfVars, pc, buying_power, raised, now, ticks, calls, tick,
                   json_error_is_request_exception>>

Next == FetchBuyingPower \/ TestBuyingPower \/ Sleep \/ RequestStop

Spec == Init /\ [][Next]_vars

----------------------------------------------------------------------------
(* check_token as an operation of the client.  main() never reaches it (line   *)
(* 311 calls check_bitcoin) and no statement assigns btc_last_price_sold, so    *)
(* its executions are checked from every value of the fields it reads, as those *)
(* of a function of the object and the replies it gets.                         *)

FieldValues == {Num(0), Num(100)}

InitEngine ==
    /\ btc_last_price_bought \in FieldValues
    /\ btc_last_price_sold \in FieldValues
    /\ btc_last_quantity_bought = Num(0)
    /\ btc_last_quantity_sold = Num(0)
    /\ btc_last_price_checked \in FieldValues
    /\ pc = "caller"
    /\ buying_power = PyNone
    /\ raised = "none"
    /\ now = 0
    /\ ticks = 0
    /\ calls = <<>>
    /\ tick = NoTick
    /\ json_error_is_request_exception \in BOOLEAN
    /\ stop_requested = FALSE

Tickers == {"BTC"}

\* one execution of check_token(ticker)
CheckToken ==
    /\ pc = "caller"
    /\ ticks < MaxTicks
    /\ \E ticker \in Tickers, open \in BOOLEAN :
         \E r \in check_token(Self, ticker, now) :
            /\ SetSelf(r.self)
            /\ calls' = r.calls
            /\ raised' = r.raised
            /\ tick' = [NoTick EXCEPT !.op = "check_token", !.holdings = r.holdings,
                                      !.quote = r.quote, !.open_order = open,
                                      !.pre = Self, !.engine_invoked = TRUE]
            /\ ticks' = ticks + 1
    /\ UNCHANGED <<pc, buying_power, now, json_error_is_request_exception,
                   stop_requested>>

NextEngine == CheckToken

SpecEngine == InitEngine /\ [][NextEngine]_vars

----------------------------------------------------------------------------
(* The gateway methods as a caller uses them (main()'s menu, lines 265-301, and   *)
(* any other code holding the client), with the clock running between the calls. *)

AssetCodes == {"BTC", "ETH"}
Symbols == {"BTC-USD", "ETH-USD"}
OrderIds == {"667dd664-0924-4083-9106-14e3444b7842"}

\* the argument lists of a call with *args
ArgLists(S) == UNION {[1..n -> S] : n \in 0..MaxArgs}

InitGateway ==
    /\ btc_last_price_bought = Num(0)
    /\ btc_last_price_sold = Num(0)
    /\ btc_last_quantity_bought = Num(0)
    /\ btc_last_quantity_sold = Num(0)
    /\ btc_last_price_checked = Num(0)
    /\ pc = "caller"
    /\ buying_power = PyNone
    /\ raised = "none"
    /\ now = 9
    /\ ticks = 0
    /\ calls = <<>>
    /\ tick = NoTick
    /\ json_error_is_request_exception \in BOOLEAN
    /\ stop_requested = FALSE

\* a call of the gateway method op with the arguments args and the result res
GatewayCall(op, args, res) ==
    /\ calls' = res.sent
    /\ raised' = res.raised
    /\ tick' = [NoTick EXCEPT !.op = op, !.args = args, !.pre = Self]
    /\ ticks' = ticks + 1
    /\ UNCHANGED <<selfVars, pc, buying_power, now,
                   json_error_is_request_exception, stop_requested>>

\* line 266
CallGetAccount ==
    /\ ticks < MaxTicks
    /\ \E out \in HttpOutcomes(Powers) :
         GatewayCall("get_account", <<>>, get_account(out, now))

CallGetHoldings ==
    /\ ticks < MaxTicks
    /\ \E asset_codes \in ArgLists(AssetCodes), out \in HttpOutcomes(Quantities) :
         GatewayCall("get_holdings", asset_codes, get_holdings(asset_codes, out, now))

CallGetBestBidAsk ==
    /\ ticks < MaxTicks
    /\ \E symbols \in ArgLists(Symbols), out \in HttpOutcomes(Prices) :
         GatewayCall("get_best_bid_ask", symbols, get_best_bid_ask(symbols, out, now))

\* lines 281-296: the menu's buy, a market order for a quantity the user types
BuyCrypto ==
    /\ ticks < MaxTicks
    /\ \E crypto_selection \in Symbols, crypto_quantity \in Quantities \ {0},
          u \in UUIDs, out \in OrderOutcomes :
         GatewayCall("place_order", <<crypto_selection, crypto_quantity>>,
                     place_order(u, "buy", "market", crypto_selection,
                                 [key |-> "asset_quantity",
                                  value |-> str(crypto_quantity)], out, now))

\* lines 298-301
CallGetOrder ==
    /\ ticks < MaxTicks
    /\ \E order_id \in OrderIds, out \in OrderOutcomes :
         GatewayCall("get_order", <<order_id>>, get_order(order_id, out, now))

CallCancelOrder ==
    /\ ticks < MaxTicks
    /\ \E order_id \in OrderIds, out \in OrderOutcomes :
         GatewayCall("cancel_order", <<order_id>>, cancel_order(order_id, out, now))

\* a second passes
ClockTick ==
    /\ now < MaxClock
    /\ now' = now + 1
    /\ UNCHANGED <<selfVars, pc, buying_power, raised, ticks, calls, tick,
                   json_error_is_request_exception, stop_requested>>

NextGateway ==
    \/ CallGetAccount
    \/ CallGetHoldings
    \/ CallGetBestBidAsk
    \/ BuyCrypto
    \/ CallGetOrder
    \/ CallCancelOrder
    \/ ClockTick

SpecGateway == InitGateway /\ [][NextGateway]_vars

----------------------------------------------------------------------------
(* Reading a tick *)

OrdersUrl == BaseUrl \o <<"/api/v1/crypto/trading/orders/">>

IsOrderSubmission(c) == c.method = "POST" /\ c.url = OrdersUrl
IsCancel(c) == c.method = "POST" /\ Len(c.url) = 4 /\ c.url[4] = "/cancel/"
IsQuoteFetch(c) == c.url[2] = "/api/v1/crypto/marketdata/best_bid_ask/"
IsBuy(c) == IsOrderSubmission(c) /\ c.body[1].side = "buy"
IsSellLimit(c) ==
    IsOrderSubmission(c) /\ c.body[1].side = "sell" /\ c.body[1].type = "limit"
\* the exchange answered the order with a fill
IsConfirmedFill(c) ==
    IsOrderSubmission(c) /\ c.net = "ok" /\ c.reply.kind = "dict" /\ c.reply.v > 0

Some(P(_)) == \E i \in DOMAIN calls : P(calls[i])
Count(P(_)) == Cardinality({i \in DOMAIN calls : P(calls[i])})

\* the tick is an execution of check_token that was told the holdings and the price
EngineRan == tick.op = "check_token"
Holdings == tick.holdings.json.v
Price == tick.quote.json.v
SawHoldings == tick.holdings.net = "ok"
SawPrice == tick.quote.net = "ok"

TradeFields(self) == <<self.btc_last_price_bought, self.btc_last_quantity_bought,
                       self.btc_last_price_sold, self.btc_last_quantity_sold>>

----------------------------------------------------------------------------
(* Claims *)

\* C1: in a tick with zero holdings and last_price_sold = 0 the engine submits a
\* buy, whatever the price is.
C1_BuyWhenNeverSold ==
    (EngineRan /\ SawHoldings /\ Holdings = 0 /\ SawPrice
       /\ tick.pre.btc_last_price_sold = Num(0))
    => Some(IsBuy)

\* C2: in a tick with zero holdings and last_price_sold # 0 the engine submits a
\* buy exactly when the bid is at most 97% of last_price_sold (97% included), and
\* submits nothing otherwise.
C2_DipBuyIffAtMost97Percent ==
    (EngineRan /\ SawHoldings /\ Holdings = 0 /\ SawPrice
       /\ tick.pre.btc_last_price_sold # Num(0))
    => /\ Some(IsBuy) <=> (100 * Price <= 97 * tick.pre.btc_last_price_sold.v)
       /\ Some(IsOrderSubmission) => Some(IsBuy)

\* C3: in a tick with positive holdings and no open order the engine submits a
\* limit sell exactly when the price is at least 103% of last_price_bought.
C3_SellLimitIffAtLeast103Percent ==
    (EngineRan /\ SawHoldings /\ Holdings > 0 /\ SawPrice /\ ~tick.open_order)
    => (Some(IsSellLimit) <=> (100 * Price >= 103 * tick.pre.btc_last_price_bought.v))

\* C4: in a tick with positive holdings and an open order the engine cancels and
\* replaces the order exactly when the price is at least 101% of
\* last_price_checked.
C4_CancelAndReplaceIffAtLeast101Percent ==
    (EngineRan /\ SawHoldings /\ Holdings > 0 /\ SawPrice /\ tick.open_order)
    => (Some(IsCancel) <=> (100 * Price >= 101 * tick.pre.btc_last_price_checked.v))

C7_SkipBelowMinimum ==
    /\ (tick.op = "main" /\ IsNum(buying_power) /\ buying_power.v < 10)
       => /\ ~Some(IsQuoteFetch)
          /\ ~Some(IsOrderSubmission)
          /\ ~Some(IsCancel)
          /\ Self = tick.pre
          /\ ~tick.engine_invoked
    /\ tick.engine_invoked => IsNum(buying_power) /\ buying_power.v >= 10

\* C7 witness: a tick skipped with a buying power of 9
C7_Witness ==
    /\ tick.op = "main" /\ pc = "sleep"
    /\ tick.account.net = "ok" /\ buying_power = Num(9)

\* C8: at the end of a tick in which the engine ran, last_price_checked is the
\* price quoted in that tick.
C8_LastPriceCheckedIsTheQuote ==
    (EngineRan /\ SawPrice) => btc_last_price_checked = Num(Price)

\* C9: a failed gateway call is not raised past the caller, and the tick neither
\* submits an order nor changes the object.
C9_FailureDegradesToHold ==
    (tick.op = "main" /\ Failed(tick.account))
    => /\ raised = "none"
       /\ ~Some(IsOrderSubmission)
       /\ Self = tick.pre

\* C10: the loop never stops on its own: no tick ends it.
C10_LoopNeverStops == pc # "raised"

\* what an evaluation of the engine decides on the object self: for every reply
\* of the exchange, the requests it issues and the way it ends
Decisions(self) ==
    UNION {{[ticker |-> ticker, holdings |-> r.holdings, quote |-> r.quote,
             calls |-> r.calls, raised |-> r.raised]
            : r \in check_token(self, ticker, now)}
           : ticker \in Tickers}

\* C11: an evaluation of check_token leaves the object such that a second
\* evaluation on the same holdings, quote and clock issues the same requests and
\* ends the same way as the first: no field the decision reads was changed.
\* (An evaluation that changed no field at all leaves nothing to compare.)
C11_EvaluationIsIdempotent ==
    (EngineRan /\ Self # tick.pre) => Decisions(Self) = Decisions(tick.pre)

\* an evaluation that wrote a field (line 170) and stopped before any order
C11_Witness ==
    /\ EngineRan
    /\ SawPrice
    /\ btc_last_price_checked # tick.pre.btc_last_price_checked
    /\ btc_last_price_sold = tick.pre.btc_last_price_sold

----------------------------------------------------------------------------
(* Reading a request *)

\* the path of a request: its URL without the base URL
PathOf(c) == SubSeq(c.url, Len(BaseUrl) + 1, Len(c.url))

\* the number a string of decimal digits writes
RECURSIVE DecimalValue(_)
DecimalValue(digits) ==
    IF Len(digits) = 0 THEN 0
    ELSE 10 * DecimalValue(SubSeq(digits, 1, Len(digits) - 1))
         + (CHOOSE d \in 0..9 : DigitChars[d + 1] = digits[Len(digits)])

\* the request is signed over api_key, x-timestamp, path, method, body in this order
IsCanonicallySigned(c) ==
    /\ c.headers.x_api_key = ApiKey
    /\ DecimalValue(c.headers.x_timestamp) = c.timestamp
    /\ c.headers.x_signature =
         Sign(ApiKey \o c.headers.x_timestamp \o PathOf(c) \o <<c.method>> \o c.body)

\* C13: every request issued carries x-api-key = api_key, an x-timestamp that is
\* the decimal string of the timestamp of the request, and the signature of the
\* concatenation api_key, that timestamp string, path, method, body, in this order
\* (the body empty when the request has none).
C13_CanonicalMessageOrder ==
    \A i \in DOMAIN calls : IsCanonicallySigned(calls[i])

\* a POST with a body, signed at a time of two digits
C13_Witness ==
    /\ tick.op = "place_order"
    /\ \E i \in DOMAIN calls :
         /\ calls[i].method = "POST"
         /\ Len(calls[i].body) = 1
         /\ Len(calls[i].headers.x_timestamp) = 2

\* the key of the query string of a gateway method taking *args
QueryKey(op) == IF op = "get_holdings" THEN "asset_code" ELSE "symbol"

\* the query string of the request: what follows the fixed part of the path
QueryOf(c) == SubSeq(c.url, Len(BaseUrl) + 2, Len(c.url))

\* query is "?" and one key=value per argument, in order, with "&" between them
IsQueryString(query, key, args) ==
    LET n == Len(args)
    IN IF n = 0 THEN query = <<>>
       ELSE /\ Len(query) = 1 + 3 * n + (n - 1)
            /\ query[1] = "?"
            /\ \A k \in 1..n : /\ query[4 * k - 2] = key
                               /\ query[4 * k - 1] = "="
                               /\ query[4 * k] = args[k]
            /\ \A k \in 1..(n - 1) : query[4 * k + 1] = "&"

\* C14: the query string get_query_params builds is empty for an empty argument
\* list, and otherwise "?" followed by one key=value pair per argument, in
\* argument order, separated by "&" (n pairs and n-1 separators).
C14_QueryParamsFormat ==
    tick.op \in {"get_holdings", "get_best_bid_ask"} =>
        \A i \in DOMAIN calls :
            IsQueryString(QueryOf(calls[i]), QueryKey(tick.op), tick.args)

\* a call with two arguments
C14_Witness ==
    /\ tick.op = "get_holdings"
    /\ Len(tick.args) = 2
    /\ Len(calls) = 1
    /\ Len(QueryOf(calls[1])) = 8

\* C15: every request a gateway call issues is stamped and signed with the value
\* of the clock at that call, not with one kept from an earlier call.
C15_SignsAtCallTime ==
    [][ticks' # ticks =>
         \A i \in DOMAIN calls' :
            /\ calls'[i].timestamp = now
            /\ IsCanonicallySigned(calls'[i])]_vars

\* a later call, made after the clock moved, stamped with the new time
C15_Witness ==
    /\ ticks >= 2
    /\ now > 9
    /\ Len(calls) = 1
    /\ DecimalValue(calls[1].headers.x_timestamp) = now

\* C16: a call of cancel_order issues one signed POST to the cancel path of the
\* order and does not raise before the request is issued.
C16_CancelIssuesOneSignedPost ==
    tick.op = "cancel_order" =>
        /\ Len(calls) = 1
        /\ IsCancel(calls[1])
        /\ IsCanonicallySigned(calls[1])

\* C17: after a buy whose request the exchange answered with a fill at price p,
\* btc_last_price_bought is p (and so not 0).
C17_LastPriceBoughtIsTheFillPrice ==
    \A i \in DOMAIN calls :
        (IsBuy(calls[i]) /\ IsConfirmedFill(calls[i])) =>
            btc_last_price_bought = Num(calls[i].reply.v)

\* the sleeps the loop has completed: the clock of the model moves only in Sleep
SleepsCompleted == now \div SleepSeconds

\* C18: ticks never overlap. Every tick started before the last one has been
\* followed to its end and by a completed sleep, so the ticks started exceed the
\* sleeps completed by at most one, and by none when the loop is at its head.
C18_TicksNeverOverlap ==
    /\ ticks - SleepsCompleted \in {0, 1}
    /\ pc = "loop" => ticks = SleepsCompleted
    /\ pc \in {"test", "sleep", "raised"} => ticks = SleepsCompleted + 1

\* a second tick in progress, the first one over and slept out
C18_Witness ==
    /\ ticks = 2
    /\ pc = "test"
    /\ SleepsCompleted = 1

\* C19: once a stop is requested the loop starts no further tick and does not
\* wait out a sleep.
C19_StopIsHonoured ==
    [][stop_requested => (ticks' = ticks /\ now' = now)]_vars

\* C20: a tick that was told of positive holdings submits no buy order.
C20_NoBuyWithHoldings ==
    (EngineRan /\ SawHoldings /\ Holdings > 0) => ~Some(IsBuy)

\* a tick with positive holdings that went on to fetch the quote
C20_Witness ==
    /\ EngineRan
    /\ SawHoldings
    /\ Holdings > 0
    /\ Some(IsQuoteFetch)
    /\ raised = "none"

====
